---- MODULE Spec2Model ----
(***************************************************************************)
(* rpdictation: the stop-coordination core of main_async (src/main.rs).    *)
(*                                                                         *)
(* The coordinator creates the FIFO and the PID file, spawns the timer     *)
(* task and the four stop listeners (stdin, fifo, notify, signal), races   *)
(* their oneshot channels in one tokio::select!, cancels the token, joins  *)
(* the tasks with tokio::try_join! and then tears the session down.        *)
(*                                                                         *)
(* Library semantics the translation relies on:                           *)
(*  - tokio::select! without `biased` polls its branches from a random     *)
(*    start: when two branches are ready either one may be taken;          *)
(*  - a oneshot receiver completes when a value was sent AND when the      *)
(*    sender was dropped; the pattern `_ =` accepts both;                  *)
(*  - tokio::fs::File::open and tokio::io::stdin run the system call on a  *)
(*    blocking thread: dropping the future does not stop the call;         *)
(*  - tokio::try_join! over JoinHandles returns at the first JoinError     *)
(*    (a panicked task); a task that RETURNS Err(..) is an Ok(Err(..))     *)
(*    to try_join! and does not short-circuit;                             *)
(*  - Child::id() is None once wait() has reaped the child;                *)
(*  - print! panics when the write to stdout fails;                        *)
(*  - SIGUSR1 terminates a process that has installed no handler for it;   *)
(*  - a named Windows kernel object (event, mutex) exists while a handle   *)
(*    to it is open; CreateMutexW on an existing name opens the object,    *)
(*    ignores bInitialOwner and sets ERROR_ALREADY_EXISTS;                 *)
(*  - dropping a cpal Stream stops its callback thread and waits for a      *)
(*    callback that is running; std Mutex::try_lock never waits.            *)
(*                                                                         *)
(* Failures are modelled for the calls whose failure the error handling of *)
(* the coordinated run is about (mkfifo, the PID file, the notifier spawn, *)
(* the signal subscription, kill/wait of the child, the join, the FIFO     *)
(* removal, the transcription backend, the typing tool). File-system calls *)
(* on the recording file and write_sample, and the Windows calls of        *)
(* ipc.rs, are taken to succeed.                                           *)
(***************************************************************************)
EXTENDS Naturals, FiniteSets

\* Bound on the number of one-second ticks of the timer task.
MaxTicks == 1

\* Bound on the number of processes that call into the instance mutex.
NumProcs == 3

\* The processes that run InstanceMutex::acquire or check_instance_running.
MutexProcs == 1..NumProcs

\* Bound on the number of polls of StopEvent::wait that time out.
MaxPolls == 2

\* Bound on the number of buffers the audio callback writes.
MaxWrites == 1

SAMPLE_RATE == 16000

\* 1.0 in the source.
MIN_RECORDING_DURATION_SECONDS == 1

\* Frame counts of the finished recording that are tried: an empty file,
\* 0.3 s, one frame short of the minimum, the minimum.
FrameCounts == {0, 4800, 15999, 16000}

\* TooShort comparing the frame count itself with the minimum in seconds.
TooShortInFrames(f) == f < MIN_RECORDING_DURATION_SECONDS

\* 524, 533: duration_seconds < MIN_RECORDING_DURATION_SECONDS, where
\* duration_seconds = frames / sample_rate in f64 (exact for these values).
TooShort(f) == f < MIN_RECORDING_DURATION_SECONDS * SAMPLE_RATE

\* Window ids the compositor reports: the one saved at the start is "A".
Windows == {"A", "B"}

Listeners == {"stdin", "fifo", "notify", "signal"}

Tasks == Listeners \cup {"timer"}

VARIABLES
    pc,          \* position of main_async / main
    result,      \* result of main_async: "none", "ok", "err"
    tty,         \* stdin_is_tty
    cancelled,   \* cancel_token
    source,      \* winner named by the select: "none" or a listener
    joined,      \* outcome of try_join!: "no", "ok", "err"
    rxAlive,     \* the oneshot receivers are still owned by main_async
    chan,        \* oneshot channel per listener: "empty", "sent", "closed"
    tpc,         \* position of each spawned task
    tres,        \* result of each task: "none", "ok", "err", "panic"
    sawCancel,   \* the task left through a cancel_token.cancelled() branch
    ticks,       \* interval ticks handled by the timer task
    stdinRead,   \* blocking read of stdin: "none", "pending", "ready", "taken"
    fifoOpen,    \* blocking open of the FIFO: "none", "pending", "connected",
                 \*   "failed", "closed"
    child,       \* notify-send --wait child: "none", "running", "exited", "reaped"
    sigintSent,  \* SIGINT was sent to the child
    handler,     \* a SIGUSR1 handler is installed in the process
    sigSub,      \* the listener's Signal stream exists
    sigPending,  \* the Signal stream has an undelivered SIGUSR1
    sigDelivered,\* a SIGUSR1 was sent to this process
    fifoExists,  \* FIFO_PATH exists
    pidFile,     \* the PID file: "none", "garbage" (not a number), "stale"
                 \*   (names P, the pid of another process), "own"
    stream,      \* cpal input stream: "playing", "dropped"
    sink,        \* WAV writer in the shared Option: "open", "taken" (the
                 \*   Option is None, the writer is owned by main_async),
                 \*   "finalized", "dropped" (dropped without finalize())
    cbpc,        \* audio callback: "idle", "locked" (holds the writer mutex)
    written,     \* buffers the callback has written to the WAV writer
    measured,    \* the size and the duration of the recording were read
    frames,      \* the frame count WavReader::duration() returned
    recFile,     \* RECORDING_FILENAME exists
    transcribed, \* provider.transcribe was called
    typed,       \* the typing tool was run
    exitStatus,  \* exit status of the process: "none", "success", "failure"
    tickChildren,\* notify-send children spawned by the timer task and not
                 \*   waited on
    switched,    \* set_focused_window(saved) before typing: "no" (not
                 \*   called), "ok" (Ok(true)), "failed" (Ok(false) or Err)
    restoreWid,  \* restore_window_id: "none" or a window
    restored,    \* set_focused_window(restore_window_id) was called
    cmd,         \* the command: "start", "stop", "toggle"
    proc,        \* the process with the pid P that a PID file left by another
                 \*   process names: "rpdictation", "other", "dead"
    pidRead,     \* pid_str as read and parsed: "unset", "absent", "garbage",
                 \*   "pid" (P)
    comm,        \* /proc/P/comm as read: "unset", "gone", "rpdictation", "other"
    found,       \* is_instance_running(): "unset", "some", "none"
    sigTo,       \* what the process was that kill(P, SIGUSR1) reached: "none",
                 \*   "rpdictation", "other"
    errKind,     \* the error main_async returned before the recording
    wpc,         \* ipc.rs, the recorder's StopEvent: "init", "created", "check",
                 \*   "poll", "ok", "cancelled", "dropped"
    wcancel,     \* the CancellationToken passed to StopEvent::wait
    polls,       \* WaitForSingleObject calls that timed out
    latePolls,   \* WaitForSingleObject calls that returned after the
                 \*   cancellation
    evSignalled, \* the named event object is signalled
    spc,         \* ipc.rs, signal_stop in another process: "idle", "opened",
                 \*   "set", "done", "failed"
    mpc,         \* ipc.rs, per process: "idle"; InstanceMutex::acquire
                 \*   "acq_created", "holding", "acq_err", "dropped";
                 \*   check_instance_running "chk_created", "chk_true",
                 \*   "chk_false"
    mexisted     \* per process: GetLastError() was ERROR_ALREADY_EXISTS
                 \*   after its CreateMutexW

vars == <<pc, result, tty, cancelled, source, joined, rxAlive, chan, tpc, tres,
          sawCancel, ticks, stdinRead, fifoOpen, child, sigintSent, handler,
          sigSub, sigPending, sigDelivered, fifoExists, pidFile, stream, sink, cbpc,
          written, measured, frames, recFile, transcribed, typed,
          exitStatus, tickChildren, switched, restoreWid, restored, cmd,
          proc, pidRead, comm, found, sigTo, errKind, wpc, wcancel, polls,
          latePolls, evSignalled, spc, mpc, mexisted>>

coordVars == <<pc, result, cancelled, source, joined, rxAlive, stream, sink>>

fsVars == <<fifoExists, pidFile>>

stdinVars == <<stdinRead>>

fifoVars == <<fifoOpen>>

notifyVars == <<child, sigintSent>>

signalVars == <<handler, sigSub, sigPending, sigDelivered>>

taskVars == <<chan, tpc, tres, sawCancel, ticks>>

audioVars == <<cbpc, written>>

downVars == <<measured, frames, recFile, transcribed, typed>>

sessionVars == <<audioVars, downVars>>

procVars == <<exitStatus, tickChildren>>

focusVars == <<switched, restoreWid, restored>>

startupVars == <<cmd, proc, pidRead, comm, found, sigTo, errKind>>

eventVars == <<wpc, wcancel, polls, latePolls, evSignalled, spc>>

mutexVars == <<mpc, mexisted>>

extVars == <<procVars, focusVars, startupVars, eventVars, mutexVars, mutexVars>>

\* The state of the recording run that the code before it does not touch.
runVars == <<tty, cancelled, source, joined, rxAlive, taskVars, stdinVars,
             fifoVars, notifyVars, signalVars, fifoExists, audioVars,
             measured, frames, transcribed, typed, procVars, focusVars,
             eventVars, mutexVars>>

\* The state of the program outside ipc.rs.
mainVars == <<pc, result, tty, cancelled, source, joined, rxAlive, taskVars,
              stdinVars, fifoVars, notifyVars, signalVars, fsVars, stream,
              sink, sessionVars, procVars, focusVars, startupVars>>

\* Everything but the state of the Windows stop event.
unixVars == <<mainVars, mutexVars>>

\* ipc.rs is not in use: no event, no wait, no signal_stop.
EventIdle ==
    /\ wpc = "init"
    /\ wcancel = FALSE
    /\ polls = 0
    /\ latePolls = 0
    /\ evSignalled = FALSE
    /\ spc = "idle"

\* ipc.rs: no process has called CreateMutexW.
MutexIdle ==
    /\ mpc = [p \in MutexProcs |-> "idle"]
    /\ mexisted = [p \in MutexProcs |-> FALSE]

\* The process is running: main has not exited and SIGUSR1 has not killed it.
ProcAlive == pc \notin {"exited", "killed"}

Init ==
    /\ pc = "mkfifo"
    /\ result = "none"
    /\ tty \in BOOLEAN
    /\ cancelled = FALSE
    /\ source = "none"
    /\ joined = "no"
    /\ rxAlive = TRUE
    /\ chan = [l \in Listeners |-> "empty"]
    /\ tpc = [t \in Tasks |-> "unspawned"]
    /\ tres = [t \in Tasks |-> "none"]
    /\ sawCancel = [t \in Tasks |-> FALSE]
    /\ ticks = 0
    /\ stdinRead = "none"
    /\ fifoOpen = "none"
    /\ child = "none"
    /\ sigintSent = FALSE
    /\ handler = FALSE
    /\ sigSub = FALSE
    /\ sigPending = FALSE
    /\ sigDelivered = FALSE
    /\ fifoExists \in BOOLEAN
    /\ pidFile \in {"none", "stale"}
    /\ stream = "playing"
    /\ sink = "open"
    /\ cbpc = "idle"
    /\ written = 0
    /\ measured = FALSE
    /\ frames = 0
    /\ recFile = TRUE
    /\ transcribed = FALSE
    /\ typed = FALSE
    /\ exitStatus = "none"
    /\ tickChildren = 0
    /\ switched = "no"
    /\ restoreWid = "none"
    /\ restored = FALSE
    /\ cmd = "start"
    /\ proc = "dead"
    /\ pidRead = "unset"
    /\ comm = "unset"
    /\ found = "unset"
    /\ sigTo = "none"
    /\ errKind = "none"
    /\ EventIdle
    /\ MutexIdle

----------------------------------------------------------------------------
(* Helpers *)

\* `?` in main_async: the function returns Err and its locals are dropped
\* in reverse order of declaration: the oneshot receivers and JoinHandles,
\* then the cpal stream (which waits for a running callback to return and
\* drops the callback's writer_clone), then `writer` with the WAV writer
\* still inside it unless line 510 took it out.
ReturnErr ==
    /\ cbpc = "idle"
    /\ pc' = "returned"
    /\ result' = "err"
    /\ rxAlive' = FALSE
    /\ stream' = "dropped"
    /\ sink' = IF sink = "open" THEN "dropped" ELSE sink

\* A task runs to its end with result r; its oneshot sender, if it was never
\* used, is dropped with the future and the channel closes.
Finish(t, r, sent, cancelSeen) ==
    /\ tpc' = [tpc EXCEPT ![t] = "done"]
    /\ tres' = [tres EXCEPT ![t] = r]
    /\ sawCancel' = [sawCancel EXCEPT ![t] = cancelSeen]
    /\ chan' = IF t \in Listeners
               THEN [chan EXCEPT ![t] = IF sent THEN "sent"
                                        ELSE IF @ = "empty" THEN "closed" ELSE @]
               ELSE chan

\* tokio::spawn of task t: the task starts at position p.
Spawn(t, p) == tpc' = [tpc EXCEPT ![t] = p]

Terminated(t) == tpc[t] = "done"

AllTasksTerminated == \A t \in Tasks : Terminated(t)

\* Receivers the select can complete on: a value or a dropped sender.
ReadyChans == {l \in Listeners : chan[l] \in {"sent", "closed"}}

----------------------------------------------------------------------------
(* The coordinator: main_async from the FIFO creation on (main.rs:316-531) *)

\* 316-319: remove a left-over FIFO, then mkfifo.
Mkfifo ==
    /\ pc = "mkfifo"
    /\ fifoExists' = TRUE
    /\ pc' = "write_pid"
    /\ UNCHANGED <<extVars, sessionVars, result, cancelled, source, joined, rxAlive, stream, sink,
                   pidFile, tty, stdinVars, fifoVars, notifyVars,
                   signalVars, taskVars>>

\* 317, 319: remove_file or mkfifo fails; `?` returns the error.
MkfifoFails ==
    /\ pc = "mkfifo"
    /\ ReturnErr
    /\ UNCHANGED <<extVars, sessionVars, cancelled, source, joined, fsVars, tty, stdinVars,
                   fifoVars, notifyVars, signalVars, taskVars>>

\* 321-323: write the PID file.
WritePid ==
    /\ pc = "write_pid"
    /\ pidFile' = "own"
    /\ pc' = "spawn_timer"
    /\ UNCHANGED <<extVars, sessionVars, result, cancelled, source, joined, rxAlive, stream, sink,
                   fifoExists, tty, stdinVars, fifoVars, notifyVars,
                   signalVars, taskVars>>

\* 323: the write fails; `?` returns the error.
WritePidFails ==
    /\ pc = "write_pid"
    /\ ReturnErr
    /\ UNCHANGED <<extVars, sessionVars, cancelled, source, joined, fsVars, tty, stdinVars,
                   fifoVars, notifyVars, signalVars, taskVars>>

\* 340-370: spawn the timer task.
SpawnTimer ==
    /\ pc = "spawn_timer"
    /\ Spawn("timer", "loop")
    /\ pc' = "spawn_stdin"
    /\ UNCHANGED <<extVars, sessionVars, result, cancelled, source, joined, rxAlive, stream, sink,
                   fsVars, tty, stdinVars, fifoVars, notifyVars, signalVars,
                   chan, tres, sawCancel, ticks>>

\* 372-394: spawn the stdin listener.
SpawnStdin ==
    /\ pc = "spawn_stdin"
    /\ Spawn("stdin", "start")
    /\ pc' = "spawn_fifo"
    /\ UNCHANGED <<extVars, sessionVars, result, cancelled, source, joined, rxAlive, stream, sink,
                   fsVars, tty, stdinVars, fifoVars, notifyVars, signalVars,
                   chan, tres, sawCancel, ticks>>

\* 396-421: spawn the fifo listener.
SpawnFifo ==
    /\ pc = "spawn_fifo"
    /\ Spawn("fifo", "start")
    /\ pc' = "spawn_notify"
    /\ UNCHANGED <<extVars, sessionVars, result, cancelled, source, joined, rxAlive, stream, sink,
                   fsVars, tty, stdinVars, fifoVars, notifyVars, signalVars,
                   chan, tres, sawCancel, ticks>>

\* 423-455: start notify-send --wait, then spawn the notify listener.
SpawnNotify ==
    /\ pc = "spawn_notify"
    /\ child' = "running"
    /\ Spawn("notify", "select")
    /\ pc' = "spawn_signal"
    /\ UNCHANGED <<extVars, sessionVars, result, cancelled, source, joined, rxAlive, stream, sink,
                   fsVars, tty, stdinVars, fifoVars, sigintSent, signalVars,
                   chan, tres, sawCancel, ticks>>

\* 433-434: notify-send cannot be spawned; `?` returns from main_async while
\* the timer, stdin and fifo tasks are running.
SpawnNotifyFails ==
    /\ pc = "spawn_notify"
    /\ ReturnErr
    /\ UNCHANGED <<extVars, sessionVars, cancelled, source, joined, fsVars, tty, stdinVars,
                   fifoVars, notifyVars, signalVars, taskVars>>

\* 457-472: spawn the signal listener (it subscribes inside the task).
SpawnSignal ==
    /\ pc = "spawn_signal"
    /\ Spawn("signal", "start")
    /\ pc' = "select"
    /\ UNCHANGED <<extVars, sessionVars, result, cancelled, source, joined, rxAlive, stream, sink,
                   fsVars, tty, stdinVars, fifoVars, notifyVars, signalVars,
                   chan, tres, sawCancel, ticks>>

\* 474-480: the race. Every receiver that has a value or whose sender was
\* dropped is ready; the select takes any one of the ready branches.
Select ==
    /\ pc = "select"
    /\ \E l \in ReadyChans : source' = l
    /\ pc' = "cancel"
    /\ UNCHANGED <<extVars, sessionVars, result, cancelled, joined, rxAlive, stream, sink, fsVars,
                   tty, stdinVars, fifoVars, notifyVars, signalVars, taskVars>>

\* A coordinator that cancels the token while the race is still undecided.
CancelBeforeWinner ==
    /\ pc = "select"
    /\ ~cancelled
    /\ cancelled' = TRUE
    /\ UNCHANGED <<extVars, sessionVars, pc, result, source, joined, rxAlive, stream, sink, fsVars,
                   tty, stdinVars, fifoVars, notifyVars, signalVars, taskVars>>

\* 482: cancel_token.cancel().
Cancel ==
    /\ pc = "cancel"
    /\ cancelled' = TRUE
    /\ pc' = "join"
    /\ UNCHANGED <<extVars, sessionVars, result, source, joined, rxAlive, stream, sink, fsVars, tty,
                   stdinVars, fifoVars, notifyVars, signalVars, taskVars>>

\* Join without the try_join!: the coordinator goes on at once.
JoinNoWait ==
    /\ pc = "join"
    /\ joined' = "ok"
    /\ pc' = "rm_fifo"
    /\ UNCHANGED <<extVars, sessionVars, result, cancelled, source, rxAlive,
                   stream, sink, fsVars, tty, stdinVars, fifoVars, notifyVars,
                   signalVars, taskVars>>

\* 495-503: try_join! completes with Ok once every JoinHandle has completed
\* with Ok(_); the tasks' own Results are dropped by `let _ =`.
Join ==
    /\ pc = "join"
    /\ \A t \in Tasks : Terminated(t) /\ tres[t] # "panic"
    /\ joined' = "ok"
    /\ pc' = "rm_fifo"
    /\ UNCHANGED <<extVars, sessionVars, result, cancelled, source, rxAlive, stream, sink, fsVars,
                   tty, stdinVars, fifoVars, notifyVars, signalVars, taskVars>>

\* 495-502: try_join! returns at the first JoinError, whatever the state of
\* the other handles; map_err and `?` return "Failed to join".
JoinFails ==
    /\ pc = "join"
    /\ \E t \in Tasks : tres[t] = "panic"
    /\ joined' = "err"
    /\ ReturnErr
    /\ UNCHANGED <<extVars, sessionVars, cancelled, source, fsVars, tty, stdinVars, fifoVars,
                   notifyVars, signalVars, taskVars>>

\* 505: remove the FIFO.
RmFifo ==
    /\ pc = "rm_fifo"
    /\ fifoExists
    /\ fifoExists' = FALSE
    /\ pc' = "rm_pid"
    /\ UNCHANGED <<extVars, sessionVars, result, cancelled, source, joined, rxAlive, stream, sink,
                   pidFile, tty, stdinVars, fifoVars, notifyVars,
                   signalVars, taskVars>>

\* 505: remove_file fails; `?` returns the error.
RmFifoFails ==
    /\ pc = "rm_fifo"
    /\ ReturnErr
    /\ UNCHANGED <<extVars, sessionVars, cancelled, source, joined, fsVars, tty, stdinVars,
                   fifoVars, notifyVars, signalVars, taskVars>>

\* 506: remove the PID file, ignoring an error.
RmPid ==
    /\ pc = "rm_pid"
    /\ pidFile' \in {"none", pidFile}
    /\ pc' = "drop_stream"
    /\ UNCHANGED <<extVars, sessionVars, result, cancelled, source, joined, rxAlive, stream, sink,
                   fifoExists, tty, stdinVars, fifoVars, notifyVars,
                   signalVars, taskVars>>

\* DropStream without the drop: the stream keeps playing.
DropStreamLeaks ==
    /\ pc = "drop_stream"
    /\ pc' = "take"
    /\ UNCHANGED <<extVars, sessionVars, result, cancelled, source, joined, rxAlive,
                   stream, sink, fsVars, tty, stdinVars, fifoVars, notifyVars,
                   signalVars, taskVars>>

\* 508: drop(stream). Dropping the cpal stream stops the callback thread and
\* waits for a callback that is running to return.
DropStream ==
    /\ pc = "drop_stream"
    /\ cbpc = "idle"
    /\ stream' = "dropped"
    /\ pc' = "take"
    /\ UNCHANGED <<extVars, sessionVars, result, cancelled, source, joined, rxAlive,
                   sink, fsVars, tty, stdinVars, fifoVars, notifyVars,
                   signalVars, taskVars>>

\* 510: writer.lock().unwrap().take(): lock() waits until the mutex is free,
\* take() leaves None in the Option, the guard is released at the end of the
\* statement.
TakeWriter ==
    /\ pc = "take"
    /\ cbpc = "idle"
    /\ sink' = IF sink = "open" THEN "taken" ELSE sink
    /\ pc' = "finalize"
    /\ UNCHANGED <<extVars, sessionVars, result, cancelled, source, joined, rxAlive,
                   stream, fsVars, tty, stdinVars, fifoVars, notifyVars,
                   signalVars, taskVars>>

\* 511-516: finalize the writer that was taken.
Finalize ==
    /\ pc = "finalize"
    /\ sink' = IF sink = "taken" THEN "finalized" ELSE sink
    /\ pc' = "analyze"
    /\ UNCHANGED <<extVars, sessionVars, result, cancelled, source, joined, rxAlive,
                   stream, fsVars, tty, stdinVars, fifoVars, notifyVars,
                   signalVars, taskVars>>

\* 518-531: read the file size and the duration of the recording. The audio
\* backend chooses the buffer sizes (BufferSize::Default), so the number of
\* frames in the file is an input of this step.
Analyze ==
    /\ pc = "analyze"
    /\ measured' = TRUE
    /\ frames' \in FrameCounts
    /\ pc' = "check_duration"
    /\ UNCHANGED <<extVars, audioVars, recFile, transcribed, typed, result, cancelled,
                   source, joined, rxAlive, stream, sink, fsVars, tty,
                   stdinVars, fifoVars, notifyVars, signalVars, taskVars>>

\* 533-541: the recording is too short: remove the file and return Ok(()).
Discard ==
    /\ pc = "check_duration"
    /\ TooShort(frames)
    /\ recFile' = FALSE
    /\ pc' = "returned"
    /\ result' = "ok"
    /\ rxAlive' = FALSE
    /\ UNCHANGED <<extVars, audioVars, measured, frames, transcribed, typed, cancelled, source,
                   joined, stream, sink, fsVars, tty, stdinVars, fifoVars,
                   notifyVars, signalVars, taskVars>>

\* 533, 543-547: the recording is long enough: read the file into memory and
\* remove it.
ReadRecording ==
    /\ pc = "check_duration"
    /\ ~TooShort(frames)
    /\ recFile' = FALSE
    /\ pc' = "transcribe"
    /\ UNCHANGED <<extVars, audioVars, measured, frames, transcribed, typed, result, cancelled,
                   source, joined, rxAlive, stream, sink, fsVars, tty,
                   stdinVars, fifoVars, notifyVars, signalVars, taskVars>>

\* 549: provider.transcribe returns the text.
Transcribe ==
    /\ pc = "transcribe"
    /\ transcribed' = TRUE
    /\ pc' = "type"
    /\ UNCHANGED <<extVars, audioVars, measured, frames, recFile, typed, result, cancelled,
                   source, joined, rxAlive, stream, sink, fsVars, tty,
                   stdinVars, fifoVars, notifyVars, signalVars, taskVars>>

\* 549: provider.transcribe returns an error; `?` returns it.
TranscribeFails ==
    /\ pc = "transcribe"
    /\ transcribed' = TRUE
    /\ ReturnErr
    /\ UNCHANGED <<extVars, audioVars, measured, frames, recFile, typed, cancelled, source,
                   joined, fsVars, tty, stdinVars, fifoVars, notifyVars,
                   signalVars, taskVars>>

\* 555, 638-655: no typer was given: nothing is typed, the closing
\* notification is sent and main_async returns Ok(()).
NoTyper ==
    /\ pc = "type"
    /\ pc' = "returned"
    /\ result' = "ok"
    /\ rxAlive' = FALSE
    /\ UNCHANGED <<extVars, sessionVars, cancelled, source, joined, stream,
                   sink, fsVars, tty, stdinVars, fifoVars, notifyVars,
                   signalVars, taskVars>>

\* 555-597: a typer was given. With a focus provider and a window saved at
\* the start, read the focused window (None when the call fails or nothing
\* is focused); if it differs from the saved one, ask the compositor to
\* focus the saved window: on Ok(true) restore_window_id is the window read,
\* on Ok(false) or Err it is None. Without tracking, or when the focus is
\* unchanged, nothing is done and restore_window_id is None.
FocusCheck ==
    /\ pc = "type"
    /\ \E saved \in {"none", "A"}, current \in Windows \cup {"none"},
          outcome \in {"ok", "failed"} :
          IF saved # "none" /\ current # saved
          THEN /\ switched' = outcome
               /\ restoreWid' = IF outcome = "ok" THEN current ELSE "none"
          ELSE /\ switched' = "no"
               /\ restoreWid' = "none"
    /\ pc' = "typing"
    /\ UNCHANGED <<procVars, restored, startupVars, eventVars, mutexVars, sessionVars, result, cancelled, source,
                   joined, rxAlive, stream, sink, fsVars, tty, stdinVars,
                   fifoVars, notifyVars, signalVars, taskVars>>

\* 600-621: wtype or ydotool is run.
TypeText ==
    /\ pc = "typing"
    /\ typed' = TRUE
    /\ pc' = "restore"
    /\ UNCHANGED <<extVars, audioVars, measured, frames, recFile, transcribed,
                   result, cancelled, source, joined, rxAlive, stream, sink,
                   fsVars, tty, stdinVars, fifoVars, notifyVars, signalVars,
                   taskVars>>

\* 604-621: the typing tool cannot be run; `?` returns "Failed to run ...".
TypeTextFails ==
    /\ pc = "typing"
    /\ typed' = TRUE
    /\ ReturnErr
    /\ UNCHANGED <<extVars, audioVars, measured, frames, recFile, transcribed,
                   cancelled, source, joined, fsVars, tty, stdinVars, fifoVars,
                   notifyVars, signalVars, taskVars>>

\* 622-626: the typer is neither wtype nor ydotool: a message is printed and
\* main_async returns Ok(()).
UnknownTyper ==
    /\ pc = "typing"
    /\ pc' = "returned"
    /\ result' = "ok"
    /\ rxAlive' = FALSE
    /\ UNCHANGED <<extVars, sessionVars, cancelled, source, joined, stream,
                   sink, fsVars, tty, stdinVars, fifoVars, notifyVars,
                   signalVars, taskVars>>

\* 628-635, 638-655: after the typing, focus restore_window_id if it is Some
\* (an error is only a warning); then the closing notification and Ok(()).
RestoreFocus ==
    /\ pc = "restore"
    /\ restored' = (restoreWid # "none")
    /\ pc' = "returned"
    /\ result' = "ok"
    /\ rxAlive' = FALSE
    /\ UNCHANGED <<procVars, switched, restoreWid, startupVars, eventVars, mutexVars, sessionVars, cancelled,
                   source, joined, stream, sink, fsVars, tty, stdinVars,
                   fifoVars, notifyVars, signalVars, taskVars>>

\* main, 672-682: block_on returns, shutdown_background, an Err is printed
\* with eprintln!, and main returns (): the exit status is 0 for Ok and Err
\* alike.
MainExit ==
    /\ pc = "returned"
    /\ pc' = "exited"
    /\ exitStatus' = "success"
    /\ UNCHANGED <<tickChildren, focusVars, startupVars, eventVars, mutexVars, sessionVars, result, cancelled, source, joined, rxAlive, stream, sink,
                   fsVars, tty, stdinVars, fifoVars, notifyVars, signalVars,
                   taskVars>>

----------------------------------------------------------------------------
(* The timer task (main.rs:340-370) *)

\* 347-363: a tick: spawn a notify-send update and drop its Child handle
\* (`let _ = ... .spawn()`: nothing waits on it), print the elapsed time.
TimerTick ==
    /\ ProcAlive
    /\ tpc["timer"] = "loop"
    /\ ticks < MaxTicks
    /\ ticks' = ticks + 1
    /\ tickChildren' = tickChildren + 1
    /\ UNCHANGED <<exitStatus, focusVars, startupVars, eventVars, mutexVars, sessionVars, coordVars, fsVars, tty, stdinVars, fifoVars, notifyVars,
                   signalVars, chan, tpc, tres, sawCancel>>

\* 362: print! panics because stdout cannot be written; the task's
\* JoinHandle will complete with a JoinError.
TimerPanics ==
    /\ ProcAlive
    /\ tpc["timer"] = "loop"
    /\ Finish("timer", "panic", FALSE, FALSE)
    /\ UNCHANGED <<extVars, sessionVars, coordVars, fsVars, tty, stdinVars, fifoVars, notifyVars,
                   signalVars, ticks>>

\* 346, 367-368: the cancellation branch ends the loop.
TimerCancel ==
    /\ ProcAlive
    /\ tpc["timer"] = "loop"
    /\ cancelled
    /\ Finish("timer", "ok", FALSE, TRUE)
    /\ UNCHANGED <<extVars, sessionVars, coordVars, fsVars, tty, stdinVars, fifoVars, notifyVars,
                   signalVars, ticks>>

----------------------------------------------------------------------------
(* The stdin listener (main.rs:372-394) *)

\* A listener that reads a line without checking is_terminal.
StdinStartAlwaysReads ==
    /\ ProcAlive
    /\ tpc["stdin"] = "start"
    /\ tpc' = [tpc EXCEPT !["stdin"] = "select"]
    /\ stdinRead' = "pending"
    /\ UNCHANGED <<extVars, sessionVars, coordVars, fsVars, tty, fifoVars, notifyVars, signalVars,
                   chan, tres, sawCancel, ticks>>

\* 376-385: not a terminal: only wait for cancellation; a terminal: start
\* read_line on the blocking stdin thread and enter the select.
StdinStart ==
    /\ ProcAlive
    /\ tpc["stdin"] = "start"
    /\ IF tty
       THEN /\ tpc' = [tpc EXCEPT !["stdin"] = "select"]
            /\ stdinRead' = "pending"
       ELSE /\ tpc' = [tpc EXCEPT !["stdin"] = "wait_cancel"]
            /\ UNCHANGED stdinRead
    /\ UNCHANGED <<extVars, sessionVars, coordVars, fsVars, tty, fifoVars, notifyVars, signalVars,
                   chan, tres, sawCancel, ticks>>

\* 378-380: cancel_token.cancelled().await of the non-terminal branch.
StdinWaitCancel ==
    /\ ProcAlive
    /\ tpc["stdin"] = "wait_cancel"
    /\ cancelled
    /\ Finish("stdin", "ok", FALSE, TRUE)
    /\ UNCHANGED <<extVars, sessionVars, coordVars, fsVars, tty, stdinVars, fifoVars, notifyVars,
                   signalVars, ticks>>

\* StdinCancel that also sends on stdin_tx.
StdinCancelSends ==
    /\ ProcAlive
    /\ tpc["stdin"] = "select"
    /\ cancelled
    /\ Finish("stdin", "ok", TRUE, TRUE)
    /\ UNCHANGED <<extVars, sessionVars, coordVars, fsVars, tty, stdinVars, fifoVars,
                   notifyVars, signalVars, ticks>>

\* 386: the cancellation branch; the blocking read, if pending, stays.
StdinCancel ==
    /\ ProcAlive
    /\ tpc["stdin"] = "select"
    /\ cancelled
    /\ Finish("stdin", "ok", FALSE, TRUE)
    /\ UNCHANGED <<extVars, sessionVars, coordVars, fsVars, tty, stdinVars, fifoVars, notifyVars,
                   signalVars, ticks>>

\* 387-388: read_line completed (with any result): send on stdin_tx. The
\* send fails, and the task returns Err, if the receiver is gone.
StdinFire ==
    /\ ProcAlive
    /\ tpc["stdin"] = "select"
    /\ stdinRead = "ready"
    /\ stdinRead' = "taken"
    /\ IF rxAlive
       THEN Finish("stdin", "ok", TRUE, FALSE)
       ELSE Finish("stdin", "err", FALSE, FALSE)
    /\ UNCHANGED <<extVars, sessionVars, coordVars, fsVars, tty, fifoVars, notifyVars, signalVars,
                   ticks>>

\* Environment: a line (or end of file) arrives on the terminal and the
\* blocking read returns, whether or not the listener still waits for it.
StdinLine ==
    /\ ProcAlive
    /\ stdinRead = "pending"
    /\ stdinRead' = IF tpc["stdin"] = "select" THEN "ready" ELSE "taken"
    /\ UNCHANGED <<extVars, sessionVars, coordVars, fsVars, tty, fifoVars, notifyVars, signalVars,
                   taskVars>>

----------------------------------------------------------------------------
(* The fifo listener (main.rs:396-421) *)

\* 400-403: File::open(FIFO_PATH) starts on a blocking thread and blocks
\* until a writer opens the FIFO.
FifoStart ==
    /\ ProcAlive
    /\ tpc["fifo"] = "start"
    /\ tpc' = [tpc EXCEPT !["fifo"] = "select"]
    /\ fifoOpen' = "pending"
    /\ UNCHANGED <<extVars, sessionVars, coordVars, fsVars, tty, stdinVars, notifyVars, signalVars,
                   chan, tres, sawCancel, ticks>>

\* 403: the open returns an error at once (the result is not inspected).
FifoStartOpenFails ==
    /\ ProcAlive
    /\ tpc["fifo"] = "start"
    /\ tpc' = [tpc EXCEPT !["fifo"] = "select"]
    /\ fifoOpen' = "failed"
    /\ UNCHANGED <<extVars, sessionVars, coordVars, fsVars, tty, stdinVars, notifyVars, signalVars,
                   chan, tres, sawCancel, ticks>>

\* 402: the cancellation branch. A File already returned by the open is
\* dropped; an open that still blocks keeps its thread.
FifoCancel ==
    /\ ProcAlive
    /\ tpc["fifo"] = "select"
    /\ cancelled
    /\ fifoOpen' = IF fifoOpen = "connected" THEN "closed" ELSE fifoOpen
    /\ Finish("fifo", "ok", FALSE, TRUE)
    /\ UNCHANGED <<extVars, sessionVars, coordVars, fsVars, tty, stdinVars, notifyVars, signalVars,
                   ticks>>

\* 403-404: the open completed, with a File or with an error: send on
\* fifo_tx; the File is dropped at once.
FifoFire ==
    /\ ProcAlive
    /\ tpc["fifo"] = "select"
    /\ fifoOpen \in {"connected", "failed"}
    /\ fifoOpen' = IF fifoOpen = "connected" THEN "closed" ELSE fifoOpen
    /\ IF rxAlive
       THEN Finish("fifo", "ok", TRUE, FALSE)
       ELSE Finish("fifo", "err", FALSE, FALSE)
    /\ UNCHANGED <<extVars, sessionVars, coordVars, fsVars, tty, stdinVars, notifyVars, signalVars,
                   ticks>>

\* Environment: a writer opens the FIFO; the blocking open returns a File,
\* which is dropped at once if the listener no longer waits for it.
FifoWriter ==
    /\ ProcAlive
    /\ fifoExists
    /\ fifoOpen = "pending"
    /\ fifoOpen' = IF tpc["fifo"] = "select" THEN "connected" ELSE "closed"
    /\ UNCHANGED <<extVars, sessionVars, coordVars, fsVars, tty, stdinVars, notifyVars, signalVars,
                   taskVars>>

----------------------------------------------------------------------------
(* The notify listener (main.rs:423-455) *)

\* 439: the cancellation branch.
NotifyCancel ==
    /\ ProcAlive
    /\ tpc["notify"] = "select"
    /\ cancelled
    /\ tpc' = [tpc EXCEPT !["notify"] = "cleanup"]
    /\ sawCancel' = [sawCancel EXCEPT !["notify"] = TRUE]
    /\ UNCHANGED <<extVars, sessionVars, coordVars, fsVars, tty, stdinVars, fifoVars, notifyVars,
                   signalVars, chan, tres, ticks>>

\* NotifyFire with the child left unreaped: id() stays Some(pid) afterwards.
NotifyFireNoReap ==
    /\ ProcAlive
    /\ tpc["notify"] = "select"
    /\ child = "exited"
    /\ IF rxAlive
       THEN /\ tpc' = [tpc EXCEPT !["notify"] = "cleanup"]
            /\ chan' = [chan EXCEPT !["notify"] = "sent"]
            /\ UNCHANGED <<extVars, tres, sawCancel>>
       ELSE Finish("notify", "err", FALSE, FALSE)
    /\ UNCHANGED <<extVars, sessionVars, coordVars, fsVars, tty, stdinVars, fifoVars,
                   notifyVars, signalVars, ticks>>

\* 440-441: the child has exited and wait() returns (the child is reaped):
\* send on notify_tx; a failed send returns Err from the task.
NotifyFire ==
    /\ ProcAlive
    /\ tpc["notify"] = "select"
    /\ child = "exited"
    /\ child' = "reaped"
    /\ IF rxAlive
       THEN /\ tpc' = [tpc EXCEPT !["notify"] = "cleanup"]
            /\ chan' = [chan EXCEPT !["notify"] = "sent"]
            /\ UNCHANGED <<extVars, sessionVars, tres, sawCancel>>
       ELSE Finish("notify", "err", FALSE, FALSE)
    /\ UNCHANGED <<extVars, sessionVars, coordVars, fsVars, tty, stdinVars, fifoVars, sigintSent,
                   signalVars, ticks>>

\* 444: proc_notify.id() is None, the child was reaped by wait().
NotifySkipKill ==
    /\ ProcAlive
    /\ tpc["notify"] = "cleanup"
    /\ child = "reaped"
    /\ Finish("notify", "ok", chan["notify"] = "sent", sawCancel["notify"])
    /\ UNCHANGED <<extVars, sessionVars, coordVars, fsVars, tty, stdinVars, fifoVars, notifyVars,
                   signalVars, ticks>>

\* 444-446: id() is Some(pid): send SIGINT to the child.
NotifyKill ==
    /\ ProcAlive
    /\ tpc["notify"] = "cleanup"
    /\ child \in {"running", "exited"}
    /\ sigintSent' = TRUE
    /\ tpc' = [tpc EXCEPT !["notify"] = "reap"]
    /\ UNCHANGED <<extVars, sessionVars, coordVars, fsVars, tty, stdinVars, fifoVars, child,
                   signalVars, chan, tres, sawCancel, ticks>>

\* 446: kill fails; `?` returns Err from the task before the second wait.
NotifyKillFails ==
    /\ ProcAlive
    /\ tpc["notify"] = "cleanup"
    /\ child \in {"running", "exited"}
    /\ Finish("notify", "err", chan["notify"] = "sent", sawCancel["notify"])
    /\ UNCHANGED <<extVars, sessionVars, coordVars, fsVars, tty, stdinVars, fifoVars, notifyVars,
                   signalVars, ticks>>

\* 447: the second wait() reaps the child once it has exited.
NotifyReap ==
    /\ ProcAlive
    /\ tpc["notify"] = "reap"
    /\ child = "exited"
    /\ child' = "reaped"
    /\ Finish("notify", "ok", chan["notify"] = "sent", sawCancel["notify"])
    /\ UNCHANGED <<extVars, sessionVars, coordVars, fsVars, tty, stdinVars, fifoVars, sigintSent,
                   signalVars, ticks>>

\* 447: the second wait() fails; `?` returns Err from the task.
NotifyReapFails ==
    /\ ProcAlive
    /\ tpc["notify"] = "reap"
    /\ Finish("notify", "err", chan["notify"] = "sent", sawCancel["notify"])
    /\ UNCHANGED <<extVars, sessionVars, coordVars, fsVars, tty, stdinVars, fifoVars, notifyVars,
                   signalVars, ticks>>

\* Environment: notify-send exits on its own (the action was clicked, the
\* notification was closed, or the process was killed from outside).
ChildExits ==
    /\ child = "running"
    /\ ~sigintSent
    /\ child' = "exited"
    /\ UNCHANGED <<extVars, sessionVars, coordVars, fsVars, tty, stdinVars, fifoVars, sigintSent,
                   signalVars, taskVars>>

\* Environment: notify-send exits on the SIGINT it was sent.
ChildInterrupted ==
    /\ child = "running"
    /\ sigintSent
    /\ child' = "exited"
    /\ UNCHANGED <<extVars, sessionVars, coordVars, fsVars, tty, stdinVars, fifoVars, sigintSent,
                   signalVars, taskVars>>

----------------------------------------------------------------------------
(* The signal listener (main.rs:457-472) *)

\* 461-462: signal(SignalKind::user_defined1()) installs the handler and
\* returns the stream.
SignalStart ==
    /\ ProcAlive
    /\ tpc["signal"] = "start"
    /\ handler' = TRUE
    /\ sigSub' = TRUE
    /\ tpc' = [tpc EXCEPT !["signal"] = "select"]
    /\ UNCHANGED <<extVars, sessionVars, coordVars, fsVars, tty, stdinVars, fifoVars, notifyVars,
                   sigPending, sigDelivered, chan, tres, sawCancel, ticks>>

\* 462: signal() fails; `?` returns Err from the task and signal_tx is
\* dropped unused.
SignalStartFails ==
    /\ ProcAlive
    /\ tpc["signal"] = "start"
    /\ Finish("signal", "err", FALSE, FALSE)
    /\ UNCHANGED <<extVars, sessionVars, coordVars, fsVars, tty, stdinVars, fifoVars, notifyVars,
                   signalVars, ticks>>

\* 464: the cancellation branch; the stream is dropped with the task.
SignalCancel ==
    /\ ProcAlive
    /\ tpc["signal"] = "select"
    /\ cancelled
    /\ sigSub' = FALSE
    /\ sigPending' = FALSE
    /\ Finish("signal", "ok", FALSE, TRUE)
    /\ UNCHANGED <<extVars, sessionVars, coordVars, fsVars, tty, stdinVars, fifoVars, notifyVars,
                   handler, sigDelivered, ticks>>

\* 465-466: sig.recv() returned: signal_tx.send(()).ok().
SignalFire ==
    /\ ProcAlive
    /\ tpc["signal"] = "select"
    /\ sigPending
    /\ sigSub' = FALSE
    /\ sigPending' = FALSE
    /\ Finish("signal", "ok", rxAlive, FALSE)
    /\ UNCHANGED <<extVars, sessionVars, coordVars, fsVars, tty, stdinVars, fifoVars, notifyVars,
                   handler, sigDelivered, ticks>>

\* Environment: `rpdictation stop` (main.rs:44-73) finds this process in the
\* PID file and sends SIGUSR1; the installed handler hands it to the stream.
Sigusr1Received ==
    /\ ProcAlive
    /\ pidFile = "own"
    /\ handler
    /\ sigSub
    /\ ~sigPending
    /\ sigPending' = TRUE
    /\ sigDelivered' = TRUE
    /\ UNCHANGED <<extVars, sessionVars, coordVars, fsVars, tty, stdinVars, fifoVars, notifyVars,
                   handler, sigSub, taskVars>>

\* Environment: the same SIGUSR1 while no handler is installed: the default
\* action terminates the process.
Sigusr1Kills ==
    /\ ProcAlive
    /\ pidFile = "own"
    /\ ~handler
    /\ pc' = "killed"
    /\ sigDelivered' = TRUE
    /\ UNCHANGED <<extVars, sessionVars, result, cancelled, source, joined, rxAlive,
                   stream, sink, fsVars, tty, stdinVars, fifoVars, notifyVars,
                   handler, sigSub, sigPending, taskVars>>

----------------------------------------------------------------------------
(* The audio callback (main.rs:296-312), run by the cpal stream's thread *)

\* 299-300: writer_clone.try_lock(). The callback runs while the stream exists;
\* try_lock never waits. Nothing else holds the mutex at this point (line 510
\* locks it within one statement), so the attempt succeeds.
CbTryLock ==
    /\ ProcAlive
    /\ stream = "playing"
    /\ cbpc = "idle"
    /\ written < MaxWrites
    /\ cbpc' = "locked"
    /\ UNCHANGED <<extVars, written, downVars, coordVars, fsVars, tty, stdinVars,
                   fifoVars, notifyVars, signalVars, taskVars>>

\* 301-308: with the mutex held, write the buffer if the Option still holds
\* the writer; the guard is released at the end of the block.
CbWrite ==
    /\ ProcAlive
    /\ cbpc = "locked"
    /\ written' = IF sink = "open" THEN written + 1 ELSE written
    /\ cbpc' = "idle"
    /\ UNCHANGED <<extVars, downVars, coordVars, fsVars, tty, stdinVars, fifoVars,
                   notifyVars, signalVars, taskVars>>

----------------------------------------------------------------------------
(* Before the recording: command dispatch, is_instance_running, *)
(* stop_recording, typer check, provider (main.rs:44-90, 137-314) *)

Commands == {"start", "stop", "toggle"}

\* The invocation starts with no stream, writer or recording of its own; the
\* PID file may be absent or left by another process P, which may be a live
\* rpdictation, an unrelated live process, or gone.
StartupInit ==
    /\ pc = "dispatch"
    /\ result = "none"
    /\ tty \in BOOLEAN
    /\ cancelled = FALSE
    /\ source = "none"
    /\ joined = "no"
    /\ rxAlive = TRUE
    /\ chan = [l \in Listeners |-> "empty"]
    /\ tpc = [t \in Tasks |-> "unspawned"]
    /\ tres = [t \in Tasks |-> "none"]
    /\ sawCancel = [t \in Tasks |-> FALSE]
    /\ ticks = 0
    /\ stdinRead = "none"
    /\ fifoOpen = "none"
    /\ child = "none"
    /\ sigintSent = FALSE
    /\ handler = FALSE
    /\ sigSub = FALSE
    /\ sigPending = FALSE
    /\ sigDelivered = FALSE
    /\ fifoExists \in BOOLEAN
    /\ pidFile \in {"none", "garbage", "stale"}
    /\ stream = "none"
    /\ sink = "none"
    /\ cbpc = "idle"
    /\ written = 0
    /\ measured = FALSE
    /\ frames = 0
    /\ recFile = FALSE
    /\ transcribed = FALSE
    /\ typed = FALSE
    /\ exitStatus = "none"
    /\ tickChildren = 0
    /\ switched = "no"
    /\ restoreWid = "none"
    /\ restored = FALSE
    /\ cmd \in Commands
    /\ proc \in {"rpdictation", "other", "dead"}
    /\ pidRead = "unset"
    /\ comm = "unset"
    /\ found = "unset"
    /\ sigTo = "none"
    /\ errKind = "none"
    /\ EventIdle
    /\ MutexIdle

\* main_async returns before the recording: Ok(()) or an error of kind k.
StartupReturn(res, k) ==
    /\ pc' = "returned"
    /\ result' = res
    /\ errKind' = k

\* 141-158: the match on the command: Stop calls stop_recording; Start and
\* Toggle call is_instance_running first.
Dispatch ==
    /\ pc = "dispatch"
    /\ pc' = IF cmd = "stop" THEN "stop_read" ELSE "iir_read"
    /\ UNCHANGED <<result, pidFile, stream, sink, recFile, startupVars,
                   runVars>>

\* 76-78: is_instance_running reads and parses the PID file; a missing or
\* unparsable file gives None through `.ok()?`.
IirRead ==
    /\ pc = "iir_read"
    /\ pidRead' = CASE pidFile = "none" -> "absent"
                    [] pidFile = "garbage" -> "garbage"
                    [] OTHER -> "pid"
    /\ IF pidFile \in {"none", "garbage"}
       THEN found' = "none" /\ pc' = "after_iir"
       ELSE found' = found /\ pc' = "iir_comm"
    /\ UNCHANGED <<result, pidFile, stream, sink, recFile, cmd, proc, comm,
                   sigTo, errKind, runVars>>

\* 80-81: read /proc/P/comm; when the process is gone the read fails and
\* `.ok()?` returns None at once, leaving the PID file as it is.
IirComm ==
    /\ pc = "iir_comm"
    /\ comm' = IF proc = "dead" THEN "gone" ELSE proc
    /\ IF proc = "dead"
       THEN found' = "none" /\ pc' = "after_iir"
       ELSE found' = found /\ pc' = "iir_cmp"
    /\ UNCHANGED <<result, pidFile, stream, sink, recFile, cmd, proc, pidRead,
                   sigTo, errKind, runVars>>

\* 83-89: the name is rpdictation: Some(pid); otherwise the PID file is
\* removed and the result is None.
IirCompare ==
    /\ pc = "iir_cmp"
    /\ IF comm = "rpdictation"
       THEN found' = "some" /\ pidFile' = pidFile
       ELSE found' = "none" /\ pidFile' = "none"
    /\ pc' = "after_iir"
    /\ UNCHANGED <<result, stream, sink, recFile, cmd, proc, pidRead, comm,
                   sigTo, errKind, runVars>>

\* AfterIir with the test of Toggle inverted.
AfterIirToggleInverted ==
    /\ pc = "after_iir"
    /\ IF cmd = "toggle"
       THEN /\ pc' = IF found = "some" THEN "typer_check" ELSE "stop_read"
            /\ UNCHANGED <<result, errKind>>
       ELSE IF found = "some"
            THEN StartupReturn("err", "already_running")
            ELSE pc' = "typer_check" /\ UNCHANGED <<result, errKind>>
    /\ UNCHANGED <<pidFile, stream, sink, recFile, cmd, proc, pidRead, comm,
                   found, sigTo, runVars>>

\* 147-157: Toggle stops the instance that was found and otherwise falls
\* through; Start bails with "Already running (pid ..)" and otherwise falls
\* through.
AfterIir ==
    /\ pc = "after_iir"
    /\ IF cmd = "toggle"
       THEN /\ pc' = IF found = "some" THEN "stop_read" ELSE "typer_check"
            /\ UNCHANGED <<result, errKind>>
       ELSE IF found = "some"
            THEN StartupReturn("err", "already_running")
            ELSE pc' = "typer_check" /\ UNCHANGED <<result, errKind>>
    /\ UNCHANGED <<pidFile, stream, sink, recFile, cmd, proc, pidRead, comm,
                   found, sigTo, runVars>>

\* 47-51: stop_recording reads and parses the PID file; `?` returns "PID
\* file not found" or "Invalid PID file".
StopRead ==
    /\ pc = "stop_read"
    /\ pidRead' = CASE pidFile = "none" -> "absent"
                    [] pidFile = "garbage" -> "garbage"
                    [] OTHER -> "pid"
    /\ comm' = "unset"
    /\ CASE pidFile = "none" -> StartupReturn("err", "no_pid_file")
         [] pidFile = "garbage" -> StartupReturn("err", "invalid_pid")
         [] OTHER -> pc' = "stop_comm" /\ UNCHANGED <<result, errKind>>
    /\ UNCHANGED <<pidFile, stream, sink, recFile, cmd, proc, found, sigTo,
                   runVars>>

\* 54-57: read /proc/P/comm; `?` returns "process not running".
StopComm ==
    /\ pc = "stop_comm"
    /\ comm' = IF proc = "dead" THEN "gone" ELSE proc
    /\ IF proc = "dead"
       THEN StartupReturn("err", "not_running")
       ELSE pc' = "stop_cmp" /\ UNCHANGED <<result, errKind>>
    /\ UNCHANGED <<pidFile, stream, sink, recFile, cmd, proc, pidRead, found,
                   sigTo, runVars>>

\* StopCompare without the comparison of the name.
StopCompareAnyName ==
    /\ pc = "stop_cmp"
    /\ pc' = "stop_kill"
    /\ UNCHANGED <<result, pidFile, stream, sink, recFile, startupVars,
                   runVars>>

\* 59-66: another name: remove the PID file and bail with "stale PID, was
\* reused by ..".
StopCompare ==
    /\ pc = "stop_cmp"
    /\ IF comm # "rpdictation"
       THEN /\ pidFile' = "none"
            /\ StartupReturn("err", "stale_reused")
       ELSE /\ pc' = "stop_kill"
            /\ UNCHANGED <<result, pidFile, errKind>>
    /\ UNCHANGED <<stream, sink, recFile, cmd, proc, pidRead, comm, found,
                   sigTo, runVars>>

\* 69-72: kill(pid, SIGUSR1); it fails when no process has the pid any more.
StopKill ==
    /\ pc = "stop_kill"
    /\ IF proc = "dead"
       THEN /\ StartupReturn("err", "kill_failed")
            /\ sigTo' = sigTo
       ELSE /\ StartupReturn("ok", "none")
            /\ sigTo' = proc
    /\ UNCHANGED <<pidFile, stream, sink, recFile, cmd, proc, pidRead, comm,
                   found, runVars>>

\* 171-176: no typer was given, or `which` finds it.
TyperCheck ==
    /\ pc = "typer_check"
    /\ pc' = "provider"
    /\ UNCHANGED <<result, pidFile, stream, sink, recFile, startupVars,
                   runVars>>

\* 171-176: the typer is not installed: a message is printed and main_async
\* returns Ok(()).
TyperMissing ==
    /\ pc = "typer_check"
    /\ StartupReturn("ok", "none")
    /\ UNCHANGED <<pidFile, stream, sink, recFile, cmd, proc, pidRead, comm,
                   found, sigTo, runVars>>

\* 195-233: the provider is created.
Provider ==
    /\ pc = "provider"
    /\ pc' = "start_rec"
    /\ UNCHANGED <<result, pidFile, stream, sink, recFile, startupVars,
                   runVars>>

\* 198-201, 213-218: --provider openai without a key, or an unknown provider.
ProviderInvalid ==
    /\ pc = "provider"
    /\ StartupReturn("err", "invalid_provider")
    /\ UNCHANGED <<pidFile, stream, sink, recFile, cmd, proc, pidRead, comm,
                   found, sigTo, runVars>>

\* 235-314: focus provider, input device, WAV writer, input stream, play():
\* the recording starts and the coordinated run begins at the FIFO creation.
StartRecording ==
    /\ pc = "start_rec"
    /\ stream' = "playing"
    /\ sink' = "open"
    /\ recFile' = TRUE
    /\ pc' = "mkfifo"
    /\ UNCHANGED <<result, pidFile, startupVars, runVars>>

\* 270-314: no input device, or the WAV file or the stream cannot be
\* created; `?` returns the error.
StartRecordingFails ==
    /\ pc = "start_rec"
    /\ StartupReturn("err", "audio")
    /\ UNCHANGED <<pidFile, stream, sink, recFile, cmd, proc, pidRead, comm,
                   found, sigTo, runVars>>

\* Environment: the process P ends; if it is a recording instance it may or
\* may not have removed its PID file (main.rs:506).
PeerExits ==
    /\ pc \notin {"exited", "mkfifo"}
    /\ proc # "dead"
    /\ proc' = "dead"
    /\ pidFile' \in IF proc = "rpdictation" THEN {pidFile, "none"} ELSE {pidFile}
    /\ UNCHANGED <<pc, result, stream, sink, recFile, cmd, pidRead, comm,
                   found, sigTo, errKind, runVars>>

\* Environment: the pid P is given to a new, unrelated process.
PidReused ==
    /\ pc \notin {"exited", "mkfifo"}
    /\ proc = "dead"
    /\ proc' = "other"
    /\ UNCHANGED <<pc, result, pidFile, stream, sink, recFile, cmd, pidRead,
                   comm, found, sigTo, errKind, runVars>>

----------------------------------------------------------------------------
(* Windows stop event (ipc.rs): StopEvent in the recording process and *)
(* signal_stop in a `stop` process. The named event object exists while a  *)
(* handle to it is open.                                                   *)

RecorderHandle == wpc \in {"created", "check", "poll", "ok", "cancelled"}

StopperHandle == spc \in {"opened", "set"}

EventExists == RecorderHandle \/ StopperHandle

\* 27-38: StopEvent::create: CreateEventW, manual reset, initially not
\* signalled; an object that already exists under the name is opened as it is.
Create ==
    /\ wpc = "init"
    /\ wpc' = "created"
    /\ evSignalled' = (EventExists /\ evSignalled)
    /\ UNCHANGED <<wcancel, polls, latePolls, spc, unixVars>>

\* 43-50: wait() moves the handle to a blocking thread, which enters the loop.
WaitBegin ==
    /\ wpc = "created"
    /\ wpc' = "check"
    /\ UNCHANGED <<wcancel, polls, latePolls, evSignalled, spc, unixVars>>

\* WaitCheck that does not look at the token.
WaitCheckNoCancel ==
    /\ wpc = "check"
    /\ wpc' = "poll"
    /\ UNCHANGED <<wcancel, polls, latePolls, evSignalled, spc, unixVars>>

\* 51-54: the top of the loop: bail with "Cancelled" if the token is
\* cancelled, else call WaitForSingleObject(handle, 100).
WaitCheck ==
    /\ wpc = "check"
    /\ wpc' = IF wcancel THEN "cancelled" ELSE "poll"
    /\ UNCHANGED <<wcancel, polls, latePolls, evSignalled, spc, unixVars>>

\* 54-58: WaitForSingleObject returns WAIT_OBJECT_0: the event is signalled
\* (a manual-reset event is not reset by the wait); wait() returns Ok(()).
PollSignalled ==
    /\ wpc = "poll"
    /\ evSignalled
    /\ wpc' = "ok"
    /\ latePolls' = IF wcancel THEN latePolls + 1 ELSE latePolls
    /\ UNCHANGED <<wcancel, polls, evSignalled, spc, unixVars>>

\* 54, 59: WaitForSingleObject returns WAIT_TIMEOUT after 100 ms: loop.
PollTimeout ==
    /\ wpc = "poll"
    /\ ~evSignalled
    /\ polls < MaxPolls
    /\ polls' = polls + 1
    /\ latePolls' = IF wcancel THEN latePolls + 1 ELSE latePolls
    /\ wpc' = "check"
    /\ UNCHANGED <<wcancel, evSignalled, spc, unixVars>>

\* 67-73: Drop for StopEvent: CloseHandle; the object goes with its last
\* handle.
DropEvent ==
    /\ wpc \in {"ok", "cancelled"}
    /\ wpc' = "dropped"
    /\ evSignalled' = (StopperHandle /\ evSignalled)
    /\ UNCHANGED <<wcancel, polls, latePolls, spc, unixVars>>

\* The recording process cancels the token.
CancelWait ==
    /\ wpc \in {"created", "check", "poll"}
    /\ ~wcancel
    /\ wcancel' = TRUE
    /\ UNCHANGED <<wpc, polls, latePolls, evSignalled, spc, unixVars>>

\* 143-147: signal_stop: OpenEventW; it fails when no event of that name
\* exists.
StopOpen ==
    /\ spc = "idle"
    /\ spc' = IF EventExists THEN "opened" ELSE "failed"
    /\ UNCHANGED <<wpc, wcancel, polls, latePolls, evSignalled, unixVars>>

\* 148-149: SetEvent.
StopSet ==
    /\ spc = "opened"
    /\ evSignalled' = TRUE
    /\ spc' = "set"
    /\ UNCHANGED <<wpc, wcancel, polls, latePolls, unixVars>>

\* 150-153: CloseHandle and Ok(()).
StopClose ==
    /\ spc = "set"
    /\ spc' = "done"
    /\ evSignalled' = (RecorderHandle /\ evSignalled)
    /\ UNCHANGED <<wpc, wcancel, polls, latePolls, unixVars>>

----------------------------------------------------------------------------
(* Windows instance mutex (ipc.rs): InstanceMutex::acquire, its Drop and   *)
(* check_instance_running, called by the processes of MutexProcs.          *)

\* The named mutex object exists: some process has a handle to it open.
MutexExists ==
    \E q \in MutexProcs : mpc[q] \in {"acq_created", "holding", "chk_created"}

\* Process q owns the mutex: it created the object as initial owner and has
\* not dropped its InstanceMutex.
Holds(q) ==
    \/ mpc[q] = "holding"
    \/ mpc[q] = "acq_created" /\ ~mexisted[q]

\* 89-98: acquire: CreateMutexW(initial owner) and GetLastError.
AcquireCreate(p) ==
    /\ mpc[p] = "idle"
    /\ mpc' = [mpc EXCEPT ![p] = "acq_created"]
    /\ mexisted' = [mexisted EXCEPT ![p] = MutexExists]
    /\ UNCHANGED <<mainVars, eventVars>>

\* 99-105: acquire: on ERROR_ALREADY_EXISTS close the handle and bail with
\* "Another instance is already running", else Ok(Self).
AcquireReturn(p) ==
    /\ mpc[p] = "acq_created"
    /\ mpc' = [mpc EXCEPT ![p] = IF mexisted[p] THEN "acq_err" ELSE "holding"]
    /\ UNCHANGED <<mexisted, mainVars, eventVars>>

\* 109-116: Drop for InstanceMutex: ReleaseMutex and CloseHandle.
DropMutex(p) ==
    /\ mpc[p] = "holding"
    /\ mpc' = [mpc EXCEPT ![p] = "dropped"]
    /\ UNCHANGED <<mexisted, mainVars, eventVars>>

\* 120-130: check_instance_running: CreateMutexW(not owner) and GetLastError.
CheckCreate(p) ==
    /\ mpc[p] = "idle"
    /\ mpc' = [mpc EXCEPT ![p] = "chk_created"]
    /\ mexisted' = [mexisted EXCEPT ![p] = MutexExists]
    /\ UNCHANGED <<mainVars, eventVars>>

\* 131-134: check_instance_running: CloseHandle and return already_exists.
CheckReturn(p) ==
    /\ mpc[p] = "chk_created"
    /\ mpc' = [mpc EXCEPT ![p] = IF mexisted[p] THEN "chk_true" ELSE "chk_false"]
    /\ UNCHANGED <<mexisted, mainVars, eventVars>>

----------------------------------------------------------------------------
(* Specifications *)

Coordinator ==
    \/ Mkfifo \/ MkfifoFails \/ WritePid \/ WritePidFails
    \/ SpawnTimer \/ SpawnStdin \/ SpawnFifo \/ SpawnNotify
    \/ SpawnNotifyFails \/ SpawnSignal
    \/ Select \/ Cancel \/ Join \/ JoinFails
    \/ RmFifo \/ RmFifoFails \/ RmPid \/ DropStream \/ TakeWriter
    \/ Finalize \/ Analyze \/ Discard \/ ReadRecording
    \/ Transcribe \/ TranscribeFails \/ NoTyper \/ FocusCheck
    \/ TypeText \/ TypeTextFails \/ UnknownTyper \/ RestoreFocus
    \/ MainExit

TimerTask == TimerTick \/ TimerPanics \/ TimerCancel

StdinTask == StdinStart \/ StdinWaitCancel \/ StdinCancel \/ StdinFire

FifoTask == FifoStart \/ FifoStartOpenFails \/ FifoCancel \/ FifoFire

NotifyTask ==
    \/ NotifyCancel \/ NotifyFire \/ NotifySkipKill
    \/ NotifyKill \/ NotifyKillFails \/ NotifyReap \/ NotifyReapFails

SignalTask == SignalStart \/ SignalStartFails \/ SignalCancel \/ SignalFire

Environment ==
    \/ StdinLine \/ FifoWriter \/ ChildExits \/ ChildInterrupted
    \/ Sigusr1Received \/ Sigusr1Kills

Next ==
    \/ Mkfifo \/ MkfifoFails \/ WritePid \/ WritePidFails
    \/ SpawnTimer \/ SpawnStdin \/ SpawnFifo \/ SpawnNotify
    \/ SpawnNotifyFails \/ SpawnSignal
    \/ Select \/ Cancel \/ Join \/ JoinFails
    \/ RmFifo \/ RmFifoFails \/ RmPid \/ DropStream \/ TakeWriter
    \/ Finalize \/ Analyze \/ Discard \/ ReadRecording
    \/ Transcribe \/ TranscribeFails \/ NoTyper \/ FocusCheck
    \/ TypeText \/ TypeTextFails \/ UnknownTyper \/ RestoreFocus
    \/ MainExit
    \/ TimerTick \/ TimerPanics \/ TimerCancel
    \/ StdinStart \/ StdinWaitCancel \/ StdinCancel \/ StdinFire
    \/ FifoStart \/ FifoStartOpenFails \/ FifoCancel \/ FifoFire
    \/ NotifyCancel \/ NotifyFire \/ NotifySkipKill
    \/ NotifyKill \/ NotifyKillFails \/ NotifyReap \/ NotifyReapFails
    \/ SignalStart \/ SignalStartFails \/ SignalCancel \/ SignalFire
    \/ StdinLine \/ FifoWriter \/ ChildExits \/ ChildInterrupted
    \/ Sigusr1Received \/ Sigusr1Kills

Spec == Init /\ [][Next]_vars

AudioCallback == CbTryLock \/ CbWrite

\* The coordinated run together with the audio callback thread.
SessionNext == Next \/ CbTryLock \/ CbWrite

SessionSpec == Init /\ [][SessionNext]_vars

Startup ==
    \/ Dispatch \/ IirRead \/ IirComm \/ IirCompare \/ AfterIir
    \/ StopRead \/ StopComm \/ StopCompare \/ StopKill
    \/ TyperCheck \/ TyperMissing \/ Provider \/ ProviderInvalid
    \/ StartRecording \/ StartRecordingFails

\* One invocation from the command dispatch to the start of the recording
\* (or its return), with the process the PID file names as environment.
StartupNext ==
    \/ Dispatch \/ IirRead \/ IirComm \/ IirCompare \/ AfterIir
    \/ StopRead \/ StopComm \/ StopCompare \/ StopKill
    \/ TyperCheck \/ TyperMissing \/ Provider \/ ProviderInvalid
    \/ StartRecording \/ StartRecordingFails
    \/ MainExit \/ PeerExits \/ PidReused

StartupSpec == StartupInit /\ [][StartupNext]_vars

\* The Windows stop event on its own: nothing else of the program runs.
StopEventInit ==
    /\ StartupInit
    /\ tty = FALSE
    /\ fifoExists = FALSE
    /\ pidFile = "none"
    /\ cmd = "start"
    /\ proc = "dead"

StopEventNext ==
    \/ Create \/ WaitBegin \/ WaitCheck \/ PollSignalled \/ PollTimeout
    \/ DropEvent \/ CancelWait \/ StopOpen \/ StopSet \/ StopClose

StopEventSpec == StopEventInit /\ [][StopEventNext]_vars

\* The Windows instance mutex on its own: nothing else of the program runs.
MutexInit == StopEventInit

MutexNext ==
    \E p \in MutexProcs :
        \/ AcquireCreate(p)
        \/ AcquireReturn(p)
        \/ DropMutex(p)
        \/ CheckCreate(p)
        \/ CheckReturn(p)

MutexSpec == MutexInit /\ [][MutexNext]_vars

\* The multi-thread runtime runs every spawned task and the coordinator
\* (block_on); notify-send exits when interrupted. No stop trigger and no
\* failure is ever forced to happen.
FairSpec ==
    /\ Spec
    /\ WF_vars(Coordinator)
    /\ WF_vars(TimerCancel)
    /\ WF_vars(StdinTask)
    /\ WF_vars(FifoTask)
    /\ WF_vars(NotifyTask)
    /\ WF_vars(SignalTask)
    /\ WF_vars(ChildInterrupted)

----------------------------------------------------------------------------
(* Properties *)

\* The external event listener l watches for has happened and l has sent on
\* its completion channel.
TriggerObserved(l) ==
    /\ chan[l] = "sent"
    /\ CASE l = "stdin" -> stdinRead \in {"ready", "taken"}
         [] l = "fifo" -> fifoOpen \in {"connected", "closed"}
         [] l = "notify" -> child \in {"exited", "reaped"}
         [] l = "signal" -> TRUE

\* No listener-owned external resource is outstanding.
NoLeaks ==
    /\ fifoOpen \notin {"pending", "connected"}
    /\ child \notin {"running", "exited"}
    /\ ~sigSub
    /\ stdinRead # "pending"

\* C1 (P1, single winner): a run names at most one source, never changes it,
\* and the source it names is a listener whose trigger was really observed,
\* never one whose completion channel merely closed or whose wait failed.
C1_SingleObservedWinner ==
    /\ [](source # "none" => TriggerObserved(source))
    /\ [][source # "none" => source' = source]_vars

\* C2 (P2, no leaks): once the join has completed, no FIFO open is pending or
\* held, the notifier child is reaped, the signal stream is gone and no stdin
\* read is pending.
C2_NoLeaksAfterJoin == joined = "ok" => NoLeaks

\* C3 (join barrier): try_join! has returned, and the coordinator is at or
\* past the FIFO/PID removal, the stream drop or the finalization, only when
\* every spawned task has terminated.
C3_JoinBarrier ==
    (joined # "no" \/ pc \in {"rm_fifo", "rm_pid", "drop_stream", "take",
                              "finalize", "analyze", "check_duration",
                              "transcribe", "type", "typing", "restore"})
        => AllTasksTerminated

\* C4 (P3): no listener sends on its completion channel once cancellation
\* has been broadcast (the winner sent before the broadcast).
C4_NoSendAfterCancel ==
    [][\A l \in Listeners :
          (chan[l] # "sent" /\ chan'[l] = "sent") => ~cancelled]_vars

\* C5: the cancellation flag is false as long as no winner is determined,
\* never goes back to false, and its only change to true is the
\* coordinator's cancel step taken after the select has named a winner.
C5_CancelMonotonic ==
    /\ [](source = "none" => ~cancelled)
    /\ [][cancelled => cancelled']_vars
    /\ [][(~cancelled /\ cancelled') => (pc = "cancel" /\ source # "none")]_vars

\* C5 witness: the token was cancelled after a winner was named.
C5_Witness == cancelled /\ source # "none" /\ pc = "join"

\* C7: a terminated listener has either sent on its channel or left through
\* its cancellation branch, never both and never neither.
C7_FiredXorCancelled ==
    \A l \in Listeners :
        Terminated(l) => ~((chan[l] = "sent") <=> sawCancel[l])

\* C8 (liveness of shutdown): once a listener has fired, eventually the
\* token is cancelled, every listener task has terminated and the
\* coordinator has returned.
C8_ShutdownLiveness ==
    (\E l \in Listeners : chan[l] = "sent")
        ~> (/\ cancelled
            /\ \A l \in Listeners : Terminated(l)
            /\ pc \in {"returned", "exited"})

C10_FailureSurfaced ==
    (joined # "no" /\ \E l \in Listeners : tres[l] \in {"err", "panic"})
        => (AllTasksTerminated /\ joined = "err")

\* C11: after a listener setup failure (mkfifo, the notifier spawn, the
\* SIGUSR1 subscription) the run names no stop source, takes or finalizes no
\* writer, transcribes nothing and never ends with Ok.
C11_SetupFailureAborts ==
    /\ []((tres["signal"] = "err" \/ (result = "err" /\ joined = "no"))
            => result # "ok")
    /\ [][(tres["signal"] = "err" \/ (result = "err" /\ joined = "no"))
            => (/\ source' = source
                /\ (sink' = sink \/ sink' = "dropped")
                /\ transcribed' = transcribed)]_vars

\* C12: when the process exits from a run that wrote the PID file and went
\* on to spawn its tasks, the FIFO and the PID file are gone, cancellation
\* was broadcast and every spawned task has terminated.
C12_CleanupUnconditional ==
    (pc = "exited" /\ tpc["timer"] # "unspawned")
        => (/\ ~fifoExists
            /\ pidFile # "own"
            /\ cancelled
            /\ \A t \in Tasks : tpc[t] \in {"unspawned", "done"})

\* C13 (Scenario B): a SIGUSR1 that arrives while the PID file is visible
\* ends the run only through the coordinator: with the signal named as the
\* stop source and the FIFO removed.
C13_EarlySignalStopsRun == pc = "killed" => (source = "signal" /\ ~fifoExists)

\* C14: a notifier listener that observed cancellation terminates only after
\* it sent SIGINT to the child and the child was reaped.
C14_NotifierReapedOnCancel ==
    (Terminated("notify") /\ sawCancel["notify"])
        => (sigintSent /\ child = "reaped")

ScenarioA ==
    /\ fifoOpen \in {"connected", "closed"}
    /\ stdinRead \notin {"ready", "taken"}
    /\ (child \in {"none", "running"} \/ sigintSent)
    /\ ~sigDelivered
    /\ tres["signal"] # "err"

C17_TeardownOrder ==
    /\ stream = "dropped" =>
           \A l \in Listeners : tpc[l] \in {"unspawned", "done"}
    /\ sink \in {"taken", "finalized"} => stream = "dropped"
    /\ measured => sink = "finalized"
    /\ transcribed =>
           (/\ measured
            /\ sink = "finalized"
            /\ stream = "dropped"
            /\ \A l \in Listeners : tpc[l] \in {"unspawned", "done"})

\* C18: once the writer has left the shared Option (taken, finalized, or
\* dropped) the stream is dropped and the callback is outside its critical
\* section; and every write of the callback goes to the open writer of a
\* playing stream.
C18_NoWriteAfterFinalize ==
    /\ [](sink # "open" => (stream = "dropped" /\ cbpc = "idle"))
    /\ [][written' # written
            => (sink = "open" /\ sink' = "open" /\ stream = "playing")]_vars

\* C18 witness: the callback has written and the writer was finalized.
C18_Witness == sink = "finalized" /\ written > 0 /\ cbpc = "idle"

C23_FatalExitNonZero ==
    (pc = "exited" /\ result = "err") => exitStatus = "failure"

\* C24 (FIFO lifecycle): a listener is spawned only when the FIFO exists;
\* the FIFO exists while any listener task of the live process is running;
\* and it is removed only after the join returned with every listener
\* terminated.
C24_FifoLifecycle ==
    /\ [][\A l \in Listeners :
            (tpc[l] = "unspawned" /\ tpc'[l] # "unspawned") => fifoExists]_vars
    /\ []((ProcAlive /\ \E l \in Listeners : tpc[l] \notin {"unspawned", "done"})
            => fifoExists)
    /\ [][(fifoExists /\ ~fifoExists')
            => (joined = "ok" /\ \A l \in Listeners : Terminated(l))]_vars

\* C24 witness: the FIFO was removed after a completed join.
C24_Witness ==
    /\ ~fifoExists
    /\ pc = "rm_pid"
    /\ joined = "ok"
    /\ \A l \in Listeners : Terminated(l)

\* C26: while the PID file names the live recording process, that process
\* has its SIGUSR1 handler installed, and SIGUSR1 never terminates it.
C26_HandlerBeforePidFile ==
    /\ (pidFile = "own" /\ ProcAlive) => handler
    /\ pc # "killed"

\* C27: when the run returns, no notify-send child of the timer task is left
\* unwaited and the notifier child, if spawned, was reaped.
C27_NotificationsOwned ==
    pc \in {"returned", "exited"}
        => (tickChildren = 0 /\ child \in {"none", "reaped"})

\* C29 (focus restoration): once the run has returned after focus was
\* switched to the saved window, focus was set back to the window read just
\* before the switch; and without a switch no focus call is made after the
\* typing.
C29_FocusRestored ==
    /\ (pc \in {"returned", "exited"} /\ switched = "ok" /\ restoreWid # "none")
           => restored
    /\ switched # "ok" => (~restored /\ restoreWid = "none")

\* C21 (guard acquire): a Start that found a live rpdictation under the pid
\* of the PID file starts nothing and returns "Already running"; a Start
\* that found the PID file stale (the process gone, or another program
\* under the pid) has deleted the file when is_instance_running returns None.
C21_GuardAcquire ==
    /\ (cmd = "start" /\ found = "some")
           => (/\ pc \in {"after_iir", "returned", "exited"}
               /\ stream = "none"
               /\ pc # "after_iir"
                      => (result = "err" /\ errKind = "already_running"))
    /\ (cmd = "start" /\ pc = "after_iir" /\ pidRead = "pid"
            /\ comm \in {"gone", "other"})
           => (found = "none" /\ pidFile = "none")

\* C22 (stale-state self-healing): whichever the command, once the check
\* found the PID file pointing to a dead or unrelated process, the file is
\* gone and the invocation does not return that condition as an error.
C22_StaleSelfHealing ==
    (pidRead = "pid" /\ comm \in {"gone", "other"}
        /\ pc \in {"after_iir", "returned", "exited"})
        => (pidFile = "none" /\ errKind \notin {"not_running", "stale_reused"})

\* C25: SIGUSR1 is sent only after the PID file was read and parsed and the
\* process under that pid was named rpdictation when its name was read; a
\* stop invocation for which this was not so has sent no signal and returned
\* an error.
C25_StopSignalConditions ==
    /\ [][sigTo' # sigTo => (pidRead = "pid" /\ comm = "rpdictation")]_vars
    /\ []((cmd = "stop" /\ pc \in {"returned", "exited"})
            => IF pidRead = "pid" /\ comm = "rpdictation"
               THEN (sigTo # "none" <=> result = "ok")
               ELSE (sigTo = "none" /\ result = "err"))

\* C25 witness: a stop invocation has signalled a live rpdictation.
C25_Witness ==
    /\ cmd = "stop"
    /\ pc = "exited"
    /\ result = "ok"
    /\ sigTo = "rpdictation"

\* C28 (toggle): a Toggle that detected a live instance never goes on to
\* start a recording (no stream, no writer, no PID file of its own) and
\* returns Ok exactly when it sent the stop signal; a Toggle goes on to the
\* recording only when it detected none, and from there Toggle and Start
\* take the same step.
C28_Toggle ==
    /\ []((cmd = "toggle" /\ found = "some")
            => (/\ pc \notin {"typer_check", "provider", "start_rec", "mkfifo"}
                /\ stream = "none"
                /\ sink = "none"
                /\ pidFile # "own"))
    /\ []((cmd = "toggle" /\ found = "some" /\ pc \in {"returned", "exited"})
            => (result = "ok" <=> sigTo # "none"))
    /\ []((cmd = "toggle"
             /\ pc \in {"typer_check", "provider", "start_rec", "mkfifo"})
            => (found = "none" /\ sigTo = "none"))
    /\ [][(pc = "after_iir" /\ found = "none" /\ pc' # pc)
            => pc' = "typer_check"]_vars

\* C28 witness: a Toggle found a live instance, signalled it and exited
\* without starting anything.
C28_Witness ==
    /\ cmd = "toggle"
    /\ found = "some"
    /\ pc = "exited"
    /\ sigTo = "rpdictation"
    /\ stream = "none"

\* C30 (StopEvent::wait): wait returns Ok only with the event signalled and
\* Cancelled only with the token cancelled; at most one poll returns after
\* the cancellation; the event, once signalled, stays signalled while the
\* recorder holds its handle, and a poll that finds it signalled returns Ok.
C30_StopEventWait ==
    /\ [](wpc = "ok" => evSignalled)
    /\ [](wpc = "cancelled" => wcancel)
    /\ [](latePolls <= 1)
    /\ [][(evSignalled /\ RecorderHandle /\ wpc' # "dropped") => evSignalled']_vars
    /\ [][(wpc = "poll" /\ evSignalled /\ wpc' # wpc) => wpc' = "ok"]_vars

\* C30 witness: the stop was signalled before wait() began and wait()
\* returned Ok from its first poll.
C30_Witness ==
    /\ wpc = "ok"
    /\ polls = 0
    /\ spc = "done"
    /\ ~wcancel

\* C31 (InstanceMutex): acquire returns Ok exactly when the caller became the
\* owner of the mutex, at most one process holds it, and a CreateMutexW of
\* acquire or of check_instance_running reports that the mutex already exists
\* (acquire then returns Err, check_instance_running true) only when some
\* other process holds an InstanceMutex at that moment.
C31_InstanceMutex ==
    /\ [](\A p \in MutexProcs : mpc[p] = "holding" => ~mexisted[p])
    /\ [](\A p, q \in MutexProcs : (Holds(p) /\ Holds(q)) => p = q)
    /\ [][\A p \in MutexProcs :
            (mpc[p] = "idle" /\ mpc'[p] \in {"acq_created", "chk_created"}
                /\ mexisted'[p])
                => \E q \in MutexProcs \ {p} : Holds(q)]_vars

====
